---------------------------- MODULE Spec2Model ----------------------------
(***************************************************************************)
(* Model of the inline MIDI recorder sketch (src/midi-recorder.ino, the    *)
(* version with the marker button, lines 271-568), built for an Arduino    *)
(* UNO: int and unsigned int are 16 bits wide, unsigned long is 32 bits.   *)
(*                                                                         *)
(* A 32-bit unsigned value is kept as a pair <<hi, lo>> of 16-bit halves,  *)
(* so that every operation wraps exactly where the AVR build wraps.        *)
(***************************************************************************)
EXTENDS Integers, Sequences, FiniteSets, TLC

\* ------------------------------------------------------------------------
\* Program constants
\* ------------------------------------------------------------------------
HAS_MORE_BYTES == 128
NOTE_OFF_EVENT == 128
NOTE_ON_EVENT == 144
CONTROL_CHANGE_EVENT == 176
PITCH_BEND_EVENT == 224
RECORDING_TIMEOUT == 120000000
FILE_FLUSH_INTERVAL == 400
LastFileNumber == 999
META_EVENT == 255
MARKER_META == 6

\* the README's reading of RECORDING_TIMEOUT: two minutes, in milliseconds
IDLE_TIMEOUT == 120000

\* ------------------------------------------------------------------------
\* Bounds of the model
\* ------------------------------------------------------------------------
\* passes of loop() that the model follows one by one
MaxIterations == 3
\* inputs from outside: messages, pin changes, long waits, power cycles
MaxInputs == 3
\* milliseconds that setup() takes (SD.begin and the file creation)
SetupMillis == 1
\* writeVarLen on its own is applied to the values within this distance of
\* 0, 2^7, 2^14, 2^21 and 2^28 - 1
VarLenSpread == 12
\* polls of the two detectors applied on their own to a sequence of levels
MaxPolls == 6
\* getDelta on its own is applied to values of lastTime within this
\* distance below 2^32 and to elapsed times up to twice this distance
DeltaSpread == 8
\* handlePitchBend on its own is applied to the bend values within this
\* distance of -8192, -128, 0, 128 and 8191
BendSpread == 16
\* the history counters sinceAppend and gap stop counting here (2^28)
GapCap == 268435456

\* ------------------------------------------------------------------------
\* 16/32-bit machine arithmetic
\* ------------------------------------------------------------------------
W16 == 65536

Min(a, b) == IF a < b THEN a ELSE b
Max(a, b) == IF a > b THEN a ELSE b

\* an Int in 0..2^31-1 as an unsigned long
U32(n) == <<n \div W16, n % W16>>
Zero32 == <<0, 0>>

Add32(a, b) ==
  LET lo == a[2] + b[2]
  IN  <<(a[1] + b[1] + lo \div W16) % W16, lo % W16>>

Sub32(a, b) ==
  LET lo == a[2] - b[2]
      borrow == IF lo < 0 THEN 1 ELSE 0
  IN  <<(a[1] - b[1] - borrow + 2 * W16) % W16, (lo + W16) % W16>>

Gt32(a, b) == a[1] > b[1] \/ (a[1] = b[1] /\ a[2] > b[2])

\* value of an unsigned long below 2^31, and "2^31 - 1" for anything above
Val32(a) == IF a[1] < 32768 THEN a[1] * W16 + a[2] ELSE 2147483647

\* micros() at the moment millis() reads ms: 1000 * ms, wrapping at 2^32
MicrosOf(ms) ==
  LET p == ms[2] * 1000
  IN  <<(ms[1] * 1000 + p \div W16) % W16, p % W16>>

\* value >> 7, buffer << 8, buffer >> 8 on unsigned long
Shr7(v) == <<v[1] \div 128, (v[2] \div 128) + (v[1] % 128) * 512>>
Shl8(b) == <<(b[1] % 256) * 256 + b[2] \div 256, (b[2] % 256) * 256>>
Shr8(b) == <<b[1] \div 256, (b[2] \div 256) + (b[1] % 256) * 256>>

\* int -> unsigned long (sign extension of a 16-bit int)
IntToULong(i) == IF i < 0 THEN <<W16 - 1, i + W16>> ELSE <<0, i>>

\* unsigned int -> int on the AVR build (two's complement reinterpretation)
UIntToInt(u) == IF u >= 32768 THEN u - W16 ELSE u

\* ------------------------------------------------------------------------
\* writeVarLen: the bytes it hands to file.write, in order
\* ------------------------------------------------------------------------
RECURSIVE VarLenShiftIn_NoHasMore(_, _)
VarLenShiftIn_NoHasMore(value, buffer) ==
  LET v == Shr7(value)
  IN  IF Gt32(v, Zero32)
        THEN LET b1 == Shl8(buffer)
                 b2 == <<b1[1], b1[2] + (v[2] % 128)>>
             IN  VarLenShiftIn_NoHasMore(v, b2)
        ELSE buffer

RECURSIVE VarLenShiftIn(_, _)
VarLenShiftIn(value, buffer) ==
  LET v == Shr7(value)
  IN  IF Gt32(v, Zero32)
        THEN LET b1 == Shl8(buffer)
                 b2 == <<b1[1], b1[2] + HAS_MORE_BYTES + (v[2] % 128)>>
             IN  VarLenShiftIn(v, b2)
        ELSE buffer

RECURSIVE VarLenUnshift(_)
VarLenUnshift(buffer) ==
  LET byte == buffer[2] % 256
  IN  IF (byte \div HAS_MORE_BYTES) % 2 = 1
        THEN <<byte>> \o VarLenUnshift(Shr8(buffer))
        ELSE <<byte>>

writeVarLen_Padded(value) ==
  LET v == value[1] * W16 + value[2]
  IN  <<128 + ((v \div 2097152) % 128), 128 + ((v \div 16384) % 128),
        128 + ((v \div 128) % 128), v % 128>>

writeVarLen_FlagStripped(value) ==
  LET w == VarLenUnshift(VarLenShiftIn(value, <<0, value[2] % 128>>))
  IN  [i \in 1..Len(w) |-> w[i] % 128]

writeVarLen(value) == VarLenUnshift(VarLenShiftIn(value, <<0, value[2] % 128>>))

\* ------------------------------------------------------------------------
\* The byte sequences of createMidiFile
\* ------------------------------------------------------------------------
header == <<77, 84, 104, 100, 0, 0, 0, 6, 0, 0, 0, 1, 1, 194>>
track == <<77, 84, 114, 107, 0, 0, 0, 0>>
tempo == <<0, 255, 81, 3, 6, 221, 208>>
createMidiFile == header \o track \o tempo

\* ------------------------------------------------------------------------
\* The SD card: a function from the numbers NNN of the existing
\* file-NNN.mid to the bytes that a reader of the card finds in them (what
\* the last open, flush or close committed).
\* ------------------------------------------------------------------------
OldFile == <<77, 84>>
NoFiles == [n \in {} |-> OldFile]
InitialCards ==
  { NoFiles,
    [n \in {1, 3} |-> OldFile],
    [n \in 1..(LastFileNumber - 1) |-> OldFile] }

\* findNextFilename: the loop stops at the first i in 1..999 for which
\* SD.exists(file-i.mid) is false; 0 when it runs to the end
findNextFilename_Last(c) ==
  LET unused == (1..LastFileNumber) \ DOMAIN c
  IN  IF unused = {} THEN 0
      ELSE CHOOSE i \in unused : \A j \in unused : i >= j

findNextFilename_NoExistsTest(c) == 1

findNextFilename(c) ==
  LET unused == (1..LastFileNumber) \ DOMAIN c
  IN  IF unused = {} THEN 0
      ELSE CHOOSE i \in unused : \A j \in unused : i <= j

\* setup(): the file part of the state it leaves, over card c
setup_OpensLastName(c, sd) ==
  LET n == findNextFilename(c)
  IN  IF sd
        THEN [filename |-> IF n # 0 THEN n ELSE LastFileNumber,
              file |-> TRUE, fileData |-> createMidiFile,
              card |-> c @@ (n :> <<>>)]
        ELSE [filename |-> 0, file |-> FALSE, fileData |-> <<>>, card |-> c]

setup(c, sd) ==
  LET n == findNextFilename(c)
  IN  IF sd /\ n # 0
        THEN [filename |-> n, file |-> TRUE, fileData |-> createMidiFile,
              card |-> c @@ (n :> <<>>)]
        ELSE [filename |-> IF sd THEN LastFileNumber ELSE 0, file |-> FALSE,
              fileData |-> <<>>, card |-> c]

\* ------------------------------------------------------------------------
\* Incoming MIDI messages handed to the handlers by MIDI.read()
\* ------------------------------------------------------------------------
Messages ==
  { [kind |-> "NoteOn", channel |-> 1, d1 |-> 60, d2 |-> 100],
    [kind |-> "NoteOff", channel |-> 1, d1 |-> 60, d2 |-> 0],
    [kind |-> "ControlChange", channel |-> 2, d1 |-> 7, d2 |-> 127],
    [kind |-> "PitchBend", channel |-> 1, d1 |-> -8192, d2 |-> 0] }

\* time that passes between two passes of loop(), as unsigned long
ShortGaps == { <<0, 400>> }
LongGaps == { <<0, 32768>>, <<1, 54465>>, <<65535, 65535>> }

\* ------------------------------------------------------------------------
\* State
\* ------------------------------------------------------------------------
VARIABLES
  millis,           \* the value millis() returns now
  lastPlayState, play, lastMarkState, nextMarker,
  lastLoopCounter, loopCounter, startTime, lastTime,
  filename,         \* NNN of file-NNN.mid, 0 for the empty String
  file,             \* TRUE iff the File handle is open
  fileData,         \* every byte written through the handle since it opened
  card, sdPresent,  \* the medium, and whether SD.begin succeeds
  sdFault,          \* TRUE while the medium refuses every file.write
  playPin, markPin, \* levels on AUDIO_DEBUG_PIN and PLACE_MARKER_PIN
  pc,               \* position in loop()
  \* history variables
  events,           \* events appended in the current session
  sinceAppend,      \* ms since the last append (since setup if none)
  dirtyFor,         \* age in ms of the oldest uncommitted byte, -1 if none
  dirtyPeak,        \* the largest age an uncommitted byte ever reached
  closed,           \* NNN -> how the session on file-NNN.mid ended
  tones,            \* number of tone() requests
  writes,           \* file.write calls that writeToFile and writeMidiMarker
                    \* made in the session, and how many of them failed
  iterations, inputs,
  seen,             \* what came in from outside: the level of the tone
                    \* button at the last poll since the start (0 before
                    \* the first), whether the polls since the start saw
                    \* it go from 0 to 1 an odd number of times, whether
                    \* the press that holds a button down has already
                    \* flipped play or written a marker since power-up,
                    \* and the kind of message the last MIDI.read handled
  probe             \* a function of the sketch applied on its own: its
                    \* inputs and what it gave (<<>> while loop() runs)

progVars == <<millis, lastPlayState, play, lastMarkState, nextMarker,
              lastLoopCounter, loopCounter, startTime, lastTime,
              filename, file, fileData, card>>
envVars == <<sdPresent, playPin, markPin, sdFault>>
histVars == <<events, sinceAppend, dirtyFor, dirtyPeak, closed, tones,
              iterations, inputs, writes>>
vars == <<progVars, envVars, pc, histVars, seen, probe>>

InitSketch ==
  \E c \in InitialCards, sd \in BOOLEAN :
    LET s == setup(c, sd) IN
    /\ sd = FALSE => c = NoFiles
    /\ sd = TRUE => c # NoFiles
    /\ millis = U32(SetupMillis)
    /\ lastPlayState = 0 /\ play = FALSE
    /\ lastMarkState = 0 /\ nextMarker = 1
    /\ lastLoopCounter = Zero32 /\ loopCounter = Zero32
    /\ startTime = Zero32 /\ lastTime = Zero32
    /\ filename = s.filename /\ file = s.file /\ fileData = s.fileData
    /\ card = s.card /\ sdPresent = sd
    /\ playPin = 0 /\ markPin = 0 /\ sdFault = FALSE
    /\ writes = [calls |-> 0, failed |-> 0]
    /\ pc = "wait"
    /\ events = <<>> /\ sinceAppend = SetupMillis
    /\ dirtyFor = IF s.file THEN SetupMillis ELSE -1
    /\ dirtyPeak = IF s.file THEN SetupMillis ELSE 0
    /\ closed = [n \in {} |-> 0]
    /\ tones = 0 /\ iterations = 0 /\ inputs = 0
    /\ seen = [polled |-> 0, oddRises |-> FALSE, playServed |-> FALSE,
               markServed |-> FALSE, message |-> "none"]

Init == InitSketch /\ probe = <<>>

\* The state after a restart over card c: every global of the sketch is
\* initialised again and setup() runs (on a medium that refuses writes
\* createMidiFile leaves the new file empty); how is "idle" or "power".
Restart_KeepsMarkerCounter(c, how, idleMs) ==
  LET s == setup(c, sdPresent) IN
  /\ millis' = U32(SetupMillis)
  /\ lastPlayState' = 0 /\ play' = FALSE
  /\ lastMarkState' = 0 /\ nextMarker' = nextMarker
  /\ lastLoopCounter' = Zero32 /\ loopCounter' = Zero32
  /\ startTime' = Zero32 /\ lastTime' = Zero32
  /\ filename' = s.filename /\ file' = s.file
  /\ fileData' = IF sdFault THEN <<>> ELSE s.fileData
  /\ card' = s.card
  /\ pc' = "wait"
  /\ events' = <<>> /\ sinceAppend' = SetupMillis
  /\ dirtyFor' = IF s.file /\ ~sdFault THEN SetupMillis ELSE -1
  /\ writes' = [calls |-> 0, failed |-> 0]
  /\ closed' = IF file
                 THEN [n \in DOMAIN closed \cup {filename} |->
                         IF n = filename
                           THEN [by |-> how, events |-> events,
                                 data |-> fileData, idle |-> idleMs]
                           ELSE closed[n]]
                 ELSE closed
  /\ seen' = [polled |-> 0, oddRises |-> FALSE,
              playServed |-> (how = "idle" /\ seen.playServed),
              markServed |-> (how = "idle" /\ seen.markServed),
              message |-> "none"]
  /\ UNCHANGED <<envVars, tones>>

Restart(c, how, idleMs) ==
  LET s == setup(c, sdPresent) IN
  /\ millis' = U32(SetupMillis)
  /\ lastPlayState' = 0 /\ play' = FALSE
  /\ lastMarkState' = 0 /\ nextMarker' = 1
  /\ lastLoopCounter' = Zero32 /\ loopCounter' = Zero32
  /\ startTime' = Zero32 /\ lastTime' = Zero32
  /\ filename' = s.filename /\ file' = s.file
  /\ fileData' = IF sdFault THEN <<>> ELSE s.fileData
  /\ card' = s.card
  /\ pc' = "wait"
  /\ events' = <<>> /\ sinceAppend' = SetupMillis
  /\ dirtyFor' = IF s.file /\ ~sdFault THEN SetupMillis ELSE -1
  /\ writes' = [calls |-> 0, failed |-> 0]
  /\ closed' = IF file
                 THEN [n \in DOMAIN closed \cup {filename} |->
                         IF n = filename
                           THEN [by |-> how, events |-> events,
                                 data |-> fileData, idle |-> idleMs]
                           ELSE closed[n]]
                 ELSE closed
  /\ seen' = [polled |-> 0, oddRises |-> FALSE,
              playServed |-> (how = "idle" /\ seen.playServed),
              markServed |-> (how = "idle" /\ seen.markServed),
              message |-> "none"]
  /\ UNCHANGED <<envVars, tones>>

\* ------------------------------------------------------------------------
\* The Delta Clock and the housekeeping conditions
\* ------------------------------------------------------------------------
\* getDelta() called when millis() reads now: the int it returns and the
\* values it leaves in startTime and lastTime
getDelta_NoFirstCall(now, start, last) ==
  [delta |-> UIntToInt(Sub32(now, last)[2]),
   startTime |-> IF start = Zero32 THEN now ELSE start, lastTime |-> now]

getDelta(now, start, last) ==
  IF start = Zero32
    THEN [delta |-> 0, startTime |-> now, lastTime |-> now]
    ELSE [delta |-> UIntToInt(Sub32(now, last)[2]),
          startTime |-> start, lastTime |-> now]

\* updateFile's test, with loopCounter = now
FlushDue_AtInterval(now, lastLoop) ==
  ~Gt32(U32(FILE_FLUSH_INTERVAL), Sub32(now, lastLoop))

FlushDue(now, lastLoop) == Gt32(Sub32(now, lastLoop), U32(FILE_FLUSH_INTERVAL))

\* checkReset's tests, called when millis() reads now
checkReset_NoStartTimeTest(now, start, isOpen, last) ==
  /\ isOpen
  /\ Gt32(Sub32(MicrosOf(now), last), U32(RECORDING_TIMEOUT))

checkReset_NoFileTest(now, start, isOpen, last) ==
  /\ start # Zero32
  /\ Gt32(Sub32(MicrosOf(now), last), U32(RECORDING_TIMEOUT))

checkReset(now, start, isOpen, last) ==
  /\ start # Zero32
  /\ isOpen
  /\ Gt32(Sub32(MicrosOf(now), last), U32(RECORDING_TIMEOUT))

\* file.flush() in updateFile and file.close() in checkReset: afterwards
\* the card holds every byte written to file-n.mid
flush_Omitted(c, n, data) == c
flush_WritesLength(c, n, data) ==
  [c EXCEPT ![n] = [i \in 1..Len(data) |->
                      IF i = 22 THEN (Len(data) - 22) % 256 ELSE data[i]]]
close_Omitted(c, n, data) == c

flush(c, n, data) == [c EXCEPT ![n] = data]
close(c, n, data) == [c EXCEPT ![n] = data]

\* the bytes writeToFile hands to the file
writeToFile(eventType, b1, b2, delta) ==
  writeVarLen(IntToULong(delta)) \o <<eventType, b1, b2>>

\* ASCII decimal digits of n > 0, as String(n) holds them
RECURSIVE Digits(_)
Digits(n) == IF n < 10 THEN <<48 + n>> ELSE Digits(n \div 10) \o <<48 + (n % 10)>>

\* String::getBytes(buf, bufsize): at most bufsize - 1 characters of the
\* String, followed by a terminating 0
getBytes(str, bufsize) ==
  LET n == Min(bufsize - 1, Len(str))
  IN  SubSeq(str, 1, n) \o <<0>>

\* len as writeMidiMarker computes it from nextMarker
MarkerLen(k) ==
  1 + (IF k > 9 THEN 1 ELSE 0) + (IF k > 99 THEN 1 ELSE 0)
    + (IF k > 999 THEN 1 ELSE 0)

\* the bytes writeMidiMarker hands to the file for marker number k
writeMidiMarker(k, delta) ==
  writeVarLen(IntToULong(delta)) \o <<META_EVENT, MARKER_META>>
    \o writeVarLen(U32(MarkerLen(k))) \o getBytes(Digits(k), MarkerLen(k))

\* ------------------------------------------------------------------------
\* Time passing between two passes of loop()
\* ------------------------------------------------------------------------
Mod32(a, m) == ((a[1] % m) * W16 + a[2]) % m
Clip(d) == Min(Val32(d), GapCap)

\* Offsets (in ms from now) of the passes of loop() that run while d ms go
\* by with nothing arriving: one pass per millisecond, at now+1 .. now+d-1.
\* The first of them whose updateFile finds the flush due:
FirstFlush == Max(1, FILE_FLUSH_INTERVAL + 1 - Val32(Sub32(millis, lastLoopCounter)))

\* Passes that flush are FILE_FLUSH_INTERVAL + 1 ms apart.
FlushOffset(k) == FirstFlush + k * (FILE_FLUSH_INTERVAL + 1)

\* micros() - lastTime at the first of them; from one flush to the next it
\* grows by 1000 * (FILE_FLUSH_INTERVAL + 1), so when it is at or below
\* RECORDING_TIMEOUT now it first exceeds it this many flushes later:
FlushesToTimeout ==
  LET idle == Sub32(MicrosOf(Add32(millis, U32(FirstFlush))), lastTime)
  IN  IF Gt32(idle, U32(RECORDING_TIMEOUT)) THEN 0
      ELSE (RECORDING_TIMEOUT - Val32(idle))
             \div (1000 * (FILE_FLUSH_INTERVAL + 1)) + 1

\* the first flush offset below d at which checkReset restarts, 0 if none
FirstReset(d) ==
  LET ks == { k \in {0, FlushesToTimeout} :
                /\ Gt32(d, U32(FlushOffset(k)))
                /\ checkReset(Add32(millis, U32(FlushOffset(k))),
                              startTime, file, lastTime) }
  IN  IF ks = {} THEN 0
      ELSE FlushOffset(CHOOSE k \in ks : \A j \in ks : k <= j)

\* the last flush offset below d, when no pass restarts
LastFlush(d) ==
  LET span == Sub32(d, U32(1 + FirstFlush))
  IN  Sub32(d, U32(1 + Mod32(span, FILE_FLUSH_INTERVAL + 1)))

Aged(ms) == IF dirtyFor = -1 THEN 0 ELSE dirtyFor + ms

\* the passes of loop() within the next d ms restart the sketch
IdleReset(d) ==
  /\ FirstReset(d) # 0
  /\ Restart(close(card, filename, fileData), "idle",
             Min(sinceAppend + FirstReset(d), GapCap))
  /\ dirtyPeak' = Max(dirtyPeak, Aged(FirstFlush))
  /\ inputs' = inputs + (IF d \in LongGaps THEN 1 ELSE 0)

\* d ms go by without a restart, then the levels on the two pins are lv
IdleUntil(d, lv) ==
  LET flushed == Gt32(d, U32(FirstFlush)) IN
  /\ FirstReset(d) = 0
  /\ millis' = Add32(millis, d)
  /\ loopCounter' = IF Gt32(d, U32(1))
                      THEN Sub32(Add32(millis, d), U32(1))
                      ELSE loopCounter
  /\ lastLoopCounter' = IF flushed THEN Add32(millis, LastFlush(d))
                        ELSE lastLoopCounter
  /\ card' = IF flushed /\ file
               THEN flush(card, filename, fileData) ELSE card
  /\ dirtyFor' = IF file /\ card'[filename] # fileData
                   THEN dirtyFor + Clip(d) ELSE -1
  /\ dirtyPeak' = Max(dirtyPeak,
                      IF flushed THEN Aged(FirstFlush) ELSE Aged(Clip(d)))
  /\ sinceAppend' = Min(sinceAppend + Clip(d), GapCap)
  /\ playPin' = lv[1] /\ markPin' = lv[2]
  /\ seen' = [seen EXCEPT !.playServed = (lv[1] = 1 /\ @),
                          !.markServed = (lv[2] = 1 /\ @)]
  /\ inputs' = inputs + (IF lv = <<playPin, markPin>> THEN 0 ELSE 1)
                       + (IF d \in LongGaps THEN 1 ELSE 0)
  /\ inputs' <= MaxInputs
  /\ pc' = "updateFile"
  /\ UNCHANGED <<lastPlayState, play, lastMarkState, nextMarker,
                 startTime, lastTime, filename, file, fileData,
                 sdPresent, sdFault, events, closed, tones, writes>>

\* the pin levels that may follow the present ones: at most one pin changes
NextLevels ==
  { <<playPin, markPin>> } \cup
  IF inputs < MaxInputs
    THEN { <<1 - playPin, markPin>>, <<playPin, 1 - markPin>> }
    ELSE {}

\* the times that may pass before the next pass that the model follows:
\* a pass in which a detector sees a level other than its last one (a
\* button held down through a restart) is the very next pass
NextGaps ==
  IF <<playPin, markPin>> # <<lastPlayState, lastMarkState>>
    THEN { <<0, 1>> }
    ELSE ShortGaps \cup (IF inputs < MaxInputs THEN LongGaps ELSE {})

Elapse ==
  /\ pc = "wait"
  /\ iterations < MaxIterations
  /\ iterations' = iterations + 1
  /\ UNCHANGED probe
  /\ \E d \in NextGaps :
       \/ IdleReset(d)
       \/ \E lv \in NextLevels : IdleUntil(d, lv)

\* ------------------------------------------------------------------------
\* loop()
\* ------------------------------------------------------------------------
UpdateFile ==
  /\ pc = "updateFile"
  /\ UNCHANGED probe
  /\ IF FlushDue(millis, lastLoopCounter)
       THEN IF checkReset(millis, startTime, file, lastTime)
              THEN /\ Restart(close(card, filename, fileData), "idle", sinceAppend)
                   /\ dirtyPeak' = Max(dirtyPeak, Aged(0))
                   /\ UNCHANGED <<iterations, inputs>>
              ELSE /\ loopCounter' = millis
                   /\ lastLoopCounter' = millis
                   /\ card' = IF file THEN flush(card, filename, fileData) ELSE card
                   /\ dirtyFor' = IF file /\ card'[filename] # fileData
                                    THEN dirtyFor ELSE -1
                   /\ pc' = "setPlayState"
                   /\ UNCHANGED <<millis, lastPlayState, play, lastMarkState,
                                  nextMarker, startTime, lastTime, filename,
                                  file, fileData, envVars, events, sinceAppend,
                                  dirtyPeak, closed, tones, iterations,
                                  inputs, writes, seen>>
       ELSE /\ loopCounter' = millis
            /\ pc' = "setPlayState"
            /\ UNCHANGED <<millis, lastPlayState, play, lastMarkState,
                           nextMarker, lastLoopCounter, startTime, lastTime,
                           filename, file, fileData, card, envVars, histVars,
                           seen>>

\* setPlayState() reading playState from the pin: what it leaves in
\* lastPlayState and play
setPlayState_BothEdges(playState, last, p) ==
  IF playState # last
    THEN [lastPlayState |-> playState, play |-> ~p]
    ELSE [lastPlayState |-> last, play |-> p]

setPlayState(playState, last, p) ==
  IF playState # last
    THEN [lastPlayState |-> playState,
          play |-> IF playState = 1 THEN ~p ELSE p]
    ELSE [lastPlayState |-> last, play |-> p]

\* checkForMarker() reading markState from the pin: what it leaves in
\* lastMarkState and whether it calls writeMidiMarker
checkForMarker_LevelTriggered(markState, last) ==
  [lastMarkState |-> markState, marker |-> (markState = 1)]

checkForMarker(markState, last) ==
  IF markState # last
    THEN [lastMarkState |-> markState, marker |-> (markState = 1)]
    ELSE [lastMarkState |-> last, marker |-> FALSE]

SetPlayState_SharedLevel ==
  /\ pc = "setPlayState"
  /\ lastPlayState' = setPlayState(playPin, lastPlayState, play).lastPlayState
  /\ lastMarkState' = lastPlayState'
  /\ play' = setPlayState(playPin, lastPlayState, play).play
  /\ seen' = [seen EXCEPT
                !.playServed = @ \/ play' # play,
                !.oddRises = IF playPin = 1 /\ seen.polled = 0 THEN ~@ ELSE @,
                !.polled = playPin]
  /\ pc' = "checkForMarker"
  /\ UNCHANGED probe
  /\ UNCHANGED <<millis, nextMarker, lastLoopCounter,
                 loopCounter, startTime, lastTime, filename, file, fileData,
                 card, envVars, histVars>>

SetPlayState_ThenRead ==
  /\ pc = "setPlayState"
  /\ lastPlayState' = setPlayState(playPin, lastPlayState, play).lastPlayState
  /\ play' = setPlayState(playPin, lastPlayState, play).play
  /\ seen' = [seen EXCEPT
                !.playServed = @ \/ play' # play,
                !.oddRises = IF playPin = 1 /\ seen.polled = 0 THEN ~@ ELSE @,
                !.polled = playPin]
  /\ pc' = "read"
  /\ UNCHANGED <<millis, lastMarkState, nextMarker, lastLoopCounter,
                 loopCounter, startTime, lastTime, filename, file, fileData,
                 card, envVars, histVars, probe>>

SetPlayState ==
  /\ pc = "setPlayState"
  /\ lastPlayState' = setPlayState(playPin, lastPlayState, play).lastPlayState
  /\ play' = setPlayState(playPin, lastPlayState, play).play
  /\ seen' = [seen EXCEPT
                !.playServed = @ \/ play' # play,
                !.oddRises = IF playPin = 1 /\ seen.polled = 0 THEN ~@ ELSE @,
                !.polled = playPin]
  /\ pc' = "checkForMarker"
  /\ UNCHANGED probe
  /\ UNCHANGED <<millis, lastMarkState, nextMarker, lastLoopCounter,
                 loopCounter, startTime, lastTime, filename, file, fileData,
                 card, envVars, histVars>>

\* The handle after the file.write calls of writeToFile or writeMidiMarker,
\* of which ok tells whether they succeeded: neither function looks at what
\* file.write returns, and nothing else closes the file
AfterWrites_CloseOnError(isOpen, ok) == isOpen /\ ok

AfterWrites(isOpen, ok) == isOpen

\* what an append of bytes in so many file.write calls does to the file
\* and to the history
Append_(bytes, calls, kind, data, g) ==
  /\ startTime' = g.startTime
  /\ lastTime' = g.lastTime
  /\ fileData' = IF sdFault THEN fileData ELSE fileData \o bytes
  /\ file' = AfterWrites(file, ~sdFault)
  /\ writes' = [calls |-> writes.calls + calls,
                failed |-> writes.failed + (IF sdFault THEN calls ELSE 0)]
  /\ events' = Append(events, [kind |-> kind, data |-> data, bytes |-> bytes,
                               gap |-> sinceAppend, at |-> millis,
                               pass |-> iterations, delta |-> g.delta])
  /\ sinceAppend' = 0
  /\ dirtyFor' = IF dirtyFor = -1 /\ ~sdFault THEN 0 ELSE dirtyFor

CheckForMarker ==
  /\ pc = "checkForMarker"
  /\ lastMarkState' = checkForMarker(markPin, lastMarkState).lastMarkState
  /\ pc' = "read"
  /\ UNCHANGED probe
  /\ IF checkForMarker(markPin, lastMarkState).marker /\ file
       THEN LET g == getDelta(millis, startTime, lastTime) IN
            /\ Append_(writeMidiMarker(nextMarker, g.delta),
                       Len(writeMidiMarker(nextMarker, g.delta))
                         - MarkerLen(nextMarker) + 1,
                       "Marker", Digits(nextMarker), g)
            /\ nextMarker' = nextMarker + 1
            /\ seen' = [seen EXCEPT !.markServed = TRUE]
       ELSE UNCHANGED <<nextMarker, startTime, lastTime, file, fileData,
                        events, sinceAppend, dirtyFor, writes, seen>>
  /\ UNCHANGED <<millis, lastPlayState, play, lastLoopCounter, loopCounter,
                 filename, card, envVars, dirtyPeak, closed, tones,
                 iterations, inputs>>

\* a handler calling writeToFile(eventType, b1, b2, getDelta())
Handle(kind, eventType, b1, b2) ==
  LET g == getDelta(millis, startTime, lastTime) IN
  /\ IF file
       THEN Append_(writeToFile(eventType, b1, b2, g.delta),
                    Len(writeToFile(eventType, b1, b2, g.delta)),
                    kind, <<b1, b2>>, g)
       ELSE /\ startTime' = g.startTime
            /\ lastTime' = g.lastTime
            /\ UNCHANGED <<file, fileData, events, sinceAppend, dirtyFor,
                           writes>>
  /\ pc' = "wait"
  /\ inputs' = inputs + 1
  /\ seen' = [seen EXCEPT !.message = kind]
  /\ UNCHANGED <<millis, lastPlayState, play, lastMarkState, nextMarker,
                 lastLoopCounter, loopCounter, filename, card, envVars,
                 dirtyPeak, closed, iterations>>

\* the event type that the handler of message m hands to writeToFile: a
\* constant of its own, whatever the channel
EventType_WithChannel(m) ==
  (CASE m.kind = "NoteOff" -> NOTE_OFF_EVENT
     [] m.kind = "NoteOn" -> NOTE_ON_EVENT
     [] m.kind = "ControlChange" -> CONTROL_CHANGE_EVENT
     [] m.kind = "PitchBend" -> PITCH_BEND_EVENT) + (m.channel - 1)

EventType(m) ==
  CASE m.kind = "NoteOff" -> NOTE_OFF_EVENT
    [] m.kind = "NoteOn" -> NOTE_ON_EVENT
    [] m.kind = "ControlChange" -> CONTROL_CHANGE_EVENT
    [] m.kind = "PitchBend" -> PITCH_BEND_EVENT

handleNoteOff(m) ==
  /\ m.kind = "NoteOff"
  /\ Handle("NoteOff", EventType(m), m.d1, m.d2)
  /\ tones' = tones

handleNoteOn(m) ==
  /\ m.kind = "NoteOn"
  /\ Handle("NoteOn", EventType(m), m.d1, m.d2)
  /\ tones' = IF play THEN tones + 1 ELSE tones

handleControlChange(m) ==
  /\ m.kind = "ControlChange"
  /\ Handle("ControlChange", EventType(m), m.d1, m.d2)
  /\ tones' = tones

\* bend += 0x2000; lsb = bend & 0x7F; msb = bend >> 7, each cast to byte
PitchBendLsb(bend) == ((bend + 8192) % 128) % 256
PitchBendMsb_NoCenter(bend) == (bend \div 128) % 256

PitchBendMsb(bend) == ((bend + 8192) \div 128) % 256

handlePitchBend(m) ==
  /\ m.kind = "PitchBend"
  /\ Handle("PitchBend", EventType(m), PitchBendLsb(m.d1), PitchBendMsb(m.d1))
  /\ tones' = tones

NoMessage ==
  /\ pc' = "wait"
  /\ seen' = [seen EXCEPT !.message = "none"]
  /\ UNCHANGED <<progVars, envVars, histVars>>

MidiRead ==
  /\ pc = "read"
  /\ UNCHANGED probe
  /\ \/ NoMessage
     \/ /\ inputs < MaxInputs
        /\ \E m \in Messages :
             \/ handleNoteOff(m)
             \/ handleNoteOn(m)
             \/ handleControlChange(m)
             \/ handlePitchBend(m)

\* external reset or loss of power: the card keeps what was committed
PowerCycle ==
  /\ pc = "wait"
  /\ inputs < MaxInputs
  /\ inputs' = inputs + 1
  /\ Restart(card, "power", sinceAppend)
  /\ UNCHANGED <<dirtyPeak, iterations, probe>>

Next ==
  \/ Elapse
  \/ UpdateFile
  \/ SetPlayState
  \/ CheckForMarker
  \/ MidiRead
  \/ PowerCycle

Spec == Init /\ [][Next]_vars

\* ------------------------------------------------------------------------
\* The sketch on a medium that may refuse writes: between two passes of
\* loop() the medium starts or stops failing every file.write
\* ------------------------------------------------------------------------
StorageFault ==
  /\ pc = "wait"
  /\ file
  /\ inputs < MaxInputs
  /\ inputs' = inputs + 1
  /\ sdFault' = ~sdFault
  /\ UNCHANGED <<progVars, sdPresent, playPin, markPin, pc, events,
                 sinceAppend, dirtyFor, dirtyPeak, closed, tones, iterations,
                 writes, seen, probe>>

FaultInit == Init /\ sdPresent /\ card = setup([n \in {1, 3} |-> OldFile], TRUE).card

FaultNext ==
  \/ Elapse
  \/ UpdateFile
  \/ SetPlayState
  \/ CheckForMarker
  \/ MidiRead
  \/ PowerCycle
  \/ StorageFault

FaultSpec == FaultInit /\ [][FaultNext]_vars

\* ------------------------------------------------------------------------
\* Reading a track back: the inverse variable-length parse and the event
\* records <delta> <status> <data>, as a reader of the file applies them
\* ------------------------------------------------------------------------
\* index of the first byte at or after i with the high bit clear, 0 if none
RECURSIVE VarLenEnd(_, _)
VarLenEnd(bytes, i) ==
  IF i > Len(bytes) THEN 0
  ELSE IF bytes[i] < HAS_MORE_BYTES THEN i
  ELSE VarLenEnd(bytes, i + 1)

\* the 7-bit groups bytes[i..e], most significant first, as a number
RECURSIVE GroupsValue(_, _, _)
GroupsValue(bytes, i, e) ==
  IF e < i THEN 0
  ELSE GroupsValue(bytes, i, e - 1) * 128 + (bytes[e] % 128)

\* the value of the variable-length quantity bytes[i..e] as <<q, r>>, which
\* stands for q * 2^28 + r: r is the value of the last four groups
ReadVarLen(bytes, i, e) ==
  IF e - i < 4 THEN <<0, GroupsValue(bytes, i, e)>>
  ELSE <<GroupsValue(bytes, Max(i, e - 7), e - 4), GroupsValue(bytes, e - 3, e)>>

KindOf(status) ==
  CASE status = NOTE_OFF_EVENT -> "NoteOff"
    [] status = NOTE_ON_EVENT -> "NoteOn"
    [] status = CONTROL_CHANGE_EVENT -> "ControlChange"
    [] status = PITCH_BEND_EVENT -> "PitchBend"
    [] OTHER -> "Unknown"

Unreadable == [kind |-> "Unreadable", data |-> <<>>, delta |-> <<0, 0>>]

\* the records found in bytes from index i on
RECURSIVE ReadEvents(_, _)
ReadEvents(bytes, i) ==
  IF i > Len(bytes) THEN <<>>
  ELSE
    LET e == VarLenEnd(bytes, i) IN
    IF e = 0 \/ e + 3 > Len(bytes) THEN <<Unreadable>>
    ELSE IF KindOf(bytes[e + 1]) # "Unknown"
      THEN <<[kind |-> KindOf(bytes[e + 1]),
              data |-> <<bytes[e + 2], bytes[e + 3]>>,
              delta |-> ReadVarLen(bytes, i, e)]>>
           \o ReadEvents(bytes, e + 4)
    ELSE IF bytes[e + 1] = META_EVENT /\ bytes[e + 2] = MARKER_META
      THEN LET le == VarLenEnd(bytes, e + 3)
               n == ReadVarLen(bytes, e + 3, le)[2]
           IN  IF le = 0 \/ le + n > Len(bytes) THEN <<Unreadable>>
               ELSE <<[kind |-> "Marker",
                       data |-> SubSeq(bytes, le + 1, le + n),
                       delta |-> ReadVarLen(bytes, i, e)]>>
                    \o ReadEvents(bytes, le + n + 1)
    ELSE <<Unreadable>>

\* the records that follow the preamble in a file's bytes
Track(bytes) == ReadEvents(bytes, Len(createMidiFile) + 1)

RECURSIVE Flatten(_)
Flatten(ss) == IF ss = <<>> THEN <<>> ELSE Head(ss) \o Flatten(Tail(ss))

EventBytes(evs) == Flatten([i \in 1..Len(evs) |-> evs[i].bytes])

\* ========================================================================
\* Properties
\* ========================================================================
\* the events of a session as a reader should find them
Expected(evs) == [i \in 1..Len(evs) |-> [kind |-> evs[i].kind, data |-> evs[i].data]]
Found(bytes) ==
  LET t == Track(bytes)
  IN  [i \in 1..Len(t) |-> [kind |-> t[i].kind, data |-> t[i].data]]

\* C1: reading the bytes after the preamble of the open session's file
\* gives one record per appended event, in arrival order, each with the
\* kind and the payload bytes of its event (status and two data bytes for
\* a MIDI event, the decimal label for a marker).
C1_RecordsMatchEvents == file => Found(fileData) = Expected(events)

\* C2: every event after the first of a session carries a delta that reads
\* back as the number of milliseconds since the previous append, for every
\* gap up to 2^28 - 1.
C2_DeltaIsElapsed ==
  file =>
    \A i \in 2..Len(events) :
      (events[i].gap < GapCap /\ i <= Len(Track(fileData)))
        => Track(fileData)[i].delta = <<0, events[i].gap>>

\* C3: a session is closed for inactivity only when at least IDLE_TIMEOUT
\* has passed since its last append.
C3_RestartOnlyAfterTimeout ==
  \A n \in DOMAIN closed :
    closed[n].by = "idle" => closed[n].idle >= IDLE_TIMEOUT

\* C4: a session that received an event and then nothing more is closed at
\* the first housekeeping pass after IDLE_TIMEOUT: it is not still open
\* two housekeeping intervals later, its file stays on the card, and the
\* session after the restart is on another file.
C4_IdleSessionRotated ==
  /\ (file /\ events # <<>>) =>
       sinceAppend <= IDLE_TIMEOUT + 2 * (FILE_FLUSH_INTERVAL + 1)
  /\ \A n \in DOMAIN closed :
       closed[n].by = "idle" => n \in DOMAIN card /\ (file => filename # n)

C7_ClosedFileComplete ==
  \A n \in DOMAIN closed :
    closed[n].by = "idle" =>
      /\ n \in DOMAIN card
      /\ card[n] = createMidiFile \o EventBytes(closed[n].events)
      /\ Len(Track(card[n])) = Len(closed[n].events)
      /\ file => filename # n

\* an idle restart ended a session with an event, and the session after it
\* has appended an event of its own
C7_Witness ==
  /\ \E n \in DOMAIN closed :
       closed[n].by = "idle" /\ closed[n].events # <<>>
  /\ file /\ events # <<>>

C9_FirstDeltaZero ==
  (file /\ events # <<>>) =>
    /\ Len(Track(fileData)) >= 1
    /\ Track(fileData)[1].delta = <<0, 0>>
    /\ events[1].bytes[1] = 0

\* the first event came at least IDLE_TIMEOUT after the start
C9_Witness ==
  /\ file /\ events # <<>>
  /\ events[1].gap >= IDLE_TIMEOUT
  /\ Track(fileData)[1].delta = <<0, 0>>

\* C10: once an event has been appended to the open session, startTime is
\* not 0, whatever millis() read when the event arrived.
C10_StartTimeLatched == (file /\ events # <<>>) => startTime # Zero32

\* ------------------------------------------------------------------------
\* writeVarLen applied on its own to values of 0 .. 2^28 - 1
\* ------------------------------------------------------------------------
VarLenInputs ==
  { v \in (0..VarLenSpread)
           \cup UNION { (b - VarLenSpread)..(b + VarLenSpread) :
                          b \in {128, 16384, 2097152} }
           \cup ((268435455 - VarLenSpread)..268435455) : v <= 268435455 }

VarLenInit ==
  /\ InitSketch
  /\ probe \in { [op |-> "call", value |-> U32(v), written |-> <<>>] :
                   v \in VarLenInputs }

VarLenWrite ==
  /\ probe.op = "call"
  /\ probe' = [probe EXCEPT !.op = "done",
                            !.written = writeVarLen(probe.value)]
  /\ UNCHANGED <<progVars, envVars, pc, histVars, seen>>

VarLenNext == VarLenWrite

VarLenSpec == VarLenInit /\ [][VarLenNext]_vars

\* C11: for a value of 0 .. 2^28 - 1, the inverse parse of the bytes that
\* writeVarLen wrote stops at the last of them and gives the value back.
C11_VarLenRoundTrip ==
  probe.op = "done" =>
    LET b == probe.written
        e == VarLenEnd(b, 1)
    IN  /\ e = Len(b)
        /\ ReadVarLen(b, 1, e) = <<0, Val32(probe.value)>>

\* the largest value has been written, as FF FF FF 7F
C11_Witness ==
  /\ probe.op = "done"
  /\ probe.value = U32(268435455)
  /\ probe.written = <<255, 255, 255, 127>>

C13_VarLenArgumentInRange ==
  \A i \in 1..Len(events) :
    ~Gt32(IntToULong(events[i].delta), U32(268435455))

\* ------------------------------------------------------------------------
\* The two edge detectors applied on their own to a sequence of levels,
\* both reading the same level at each poll
\* ------------------------------------------------------------------------
EdgeInit ==
  /\ InitSketch
  /\ probe = [op |-> "poll", levels |-> <<>>,
              lastPlayState |-> 0, play |-> FALSE, lastMarkState |-> 0,
              toggles |-> <<>>, markers |-> <<>>]

EdgePoll ==
  /\ probe.op = "poll"
  /\ Len(probe.levels) < MaxPolls
  /\ \E level \in {0, 1} :
       LET p == setPlayState(level, probe.lastPlayState, probe.play)
           m == checkForMarker(level, probe.lastMarkState)
       IN  probe' = [op |-> "poll",
                     levels |-> Append(probe.levels, level),
                     lastPlayState |-> p.lastPlayState,
                     play |-> p.play,
                     lastMarkState |-> m.lastMarkState,
                     toggles |-> Append(probe.toggles, p.play # probe.play),
                     markers |-> Append(probe.markers, m.marker)]
  /\ UNCHANGED <<progVars, envVars, pc, histVars, seen>>

EdgeNext == EdgePoll

EdgeSpec == EdgeInit /\ [][EdgeNext]_vars

\* C14: at every poll each detector fires exactly when the polled level is
\* 1 and the level of the poll before it (0 before the first) was 0.
C14_FiresOnRisingEdgeOnly ==
  probe.op = "poll" =>
    \A i \in 1..Len(probe.levels) :
      LET rising == /\ probe.levels[i] = 1
                    /\ (IF i = 1 THEN 0 ELSE probe.levels[i - 1]) = 0
      IN  /\ probe.markers[i] = rising
          /\ probe.toggles[i] = rising

\* the levels 0 1 1 1 0 1 have been polled: fired at the second and the
\* sixth poll only
C14_Witness ==
  /\ probe.op = "poll"
  /\ probe.levels = <<0, 1, 1, 1, 0, 1>>
  /\ probe.markers = <<FALSE, TRUE, FALSE, FALSE, FALSE, TRUE>>
  /\ probe.toggles = <<FALSE, TRUE, FALSE, FALSE, FALSE, TRUE>>

\* C15: the k-th marker of a session is the record <delta> FF 06 <length>
\* <label>, the label being the decimal digits of k and the length their
\* number.
C15_MarkerRecord ==
  \A i \in 1..Len(events) :
    events[i].kind = "Marker" =>
      LET k == Cardinality({ j \in 1..i : events[j].kind = "Marker" })
      IN  events[i].bytes =
            writeVarLen(IntToULong(events[i].delta))
              \o <<META_EVENT, MARKER_META, Len(Digits(k))>> \o Digits(k)

C17_OpensSmallestUnused ==
  /\ [](file =>
          /\ filename \in 1..LastFileNumber
          /\ (1..filename) \subseteq DOMAIN card
          /\ \/ card[filename] = <<>>
             \/ /\ Len(card[filename]) >= Len(createMidiFile)
                /\ card[filename] = SubSeq(fileData, 1, Len(card[filename])))
  /\ [][(pc # "read" /\ pc' = "wait" /\ file') =>
          /\ filename' \notin DOMAIN card
          /\ (1..(filename' - 1)) \subseteq DOMAIN card
          /\ DOMAIN card' = DOMAIN card \cup {filename'}
          /\ card'[filename'] = <<>>]_vars

\* a card that held files 1 and 3: the first session took 2, and the
\* session after a restart has taken 4
C17_Witness ==
  /\ file /\ filename = 4
  /\ DOMAIN card = {1, 2, 3, 4}
  /\ 2 \in DOMAIN closed

\* a step leaves every file that the card held as it was, but for the one
\* that is open; a file it adds is the one that is open after it
OthersKept ==
  LET kept == IF file THEN [card EXCEPT ![filename] = card'[filename]]
                      ELSE card
  IN  \/ card' = kept
      \/ /\ file' /\ filename' \notin DOMAIN card
         /\ card' = kept @@ (filename' :> card'[filename'])

\* C18: sessions never share a file. The open file was not the file of an
\* earlier session and holds the preamble and the events of this session
\* only; the card's copy of an earlier session's file holds bytes of that
\* session only; and a step changes no file on the card other than the
\* one that is open, which stays the same file until the restart.
C18_SessionsKeepApart ==
  /\ [](file =>
          /\ filename \notin DOMAIN closed
          /\ fileData = createMidiFile \o EventBytes(events))
  /\ [](\A n \in DOMAIN closed :
          /\ n \in DOMAIN card
          /\ Len(card[n]) <= Len(closed[n].data)
          /\ card[n] = SubSeq(closed[n].data, 1, Len(card[n])))
  /\ [][/\ OthersKept
        /\ (file /\ ~(pc # "read" /\ pc' = "wait")) =>
             file' /\ filename' = filename]_vars

\* a session with an event was ended by a power cycle and the session
\* after it, on another file, has an event of its own
C18_Witness ==
  /\ file /\ events # <<>>
  /\ \E n \in DOMAIN closed :
       /\ closed[n].by = "power" /\ closed[n].events # <<>>
       /\ n # filename

\* is p the beginning of s
IsPrefix(p, s) == Len(p) <= Len(s) /\ p = SubSeq(s, 1, Len(p))

\* C19: the bytes written to the open file are the 29 bytes of the
\* preamble (MThd, length 6, format 0, one track, 450 ticks per quarter
\* note; MTrk with length 00 00 00 00; delta 0 and the tempo event)
\* followed by one readable record per event; what the card holds of the
\* file is a beginning of them; and a step only ever adds bytes at the end,
\* in the handle and on the card.
C19_PreambleThenAppendOnly ==
  /\ [](file =>
          /\ Len(fileData) >= 29
          /\ SubSeq(fileData, 1, 29) =
               <<77, 84, 104, 100, 0, 0, 0, 6, 0, 0, 0, 1, 1, 194,
                 77, 84, 114, 107, 0, 0, 0, 0,
                 0, 255, 81, 3, 6, 221, 208>>
          /\ Len(Track(fileData)) = Len(events)
          /\ \A i \in 1..Len(events) : Track(fileData)[i].kind = events[i].kind
          /\ IsPrefix(card[filename], fileData))
  /\ [][(file /\ file' /\ filename' = filename) =>
          /\ IsPrefix(fileData, fileData')
          /\ IsPrefix(card[filename], card'[filename])]_vars

\* the card holds the preamble and the first event of the open file, and
\* a second event has been written after them
C19_Witness ==
  /\ file /\ Len(events) = 2
  /\ Len(card[filename]) > Len(createMidiFile)
  /\ Len(fileData) > Len(card[filename])
  /\ SubSeq(card[filename], 19, 22) = <<0, 0, 0, 0>>

\* C20: without persistence the sketch goes on as before and touches no
\* file. A start opens no file when SD.begin fails or the card holds all
\* of file-001.mid .. file-999.mid, and leaves every file as it was; with
\* no file open, no step opens one, changes the card or keeps a byte of an
\* event; and with or without a file each pass polls the two buttons,
\* a press of the tone button toggles play, and tones are requested only
\* by MIDI.read while play is on.
C20_NoPersistenceMode ==
  /\ [](file => sdPresent)
  /\ [](~file => fileData = <<>> /\ events = <<>>)
  /\ [](pc = "read" => lastPlayState = playPin /\ lastMarkState = markPin)
  /\ [][/\ ~file =>
             /\ ~file' /\ card' = card
             /\ fileData' = fileData /\ events' = events
        /\ (/\ pc # "read" /\ pc' = "wait"
            /\ ~sdPresent \/ (1..LastFileNumber) \subseteq DOMAIN card) =>
             /\ ~file'
             /\ card' = IF file THEN [card EXCEPT ![filename] = card'[filename]]
                                ELSE card
        /\ pc = "setPlayState" =>
             play' = IF playPin = 1 /\ lastPlayState = 0 THEN ~play ELSE play
        /\ tones' # tones => pc = "read" /\ play /\ tones' = tones + 1]_vars

\* all 999 names are taken, no file is open, and a note-on has requested
\* a tone after the tone button was pressed
C20_Witness ==
  /\ ~file /\ sdPresent
  /\ (1..LastFileNumber) \subseteq DOMAIN card
  /\ play /\ tones > 0
  /\ pc = "wait"


\* ------------------------------------------------------------------------
\* Appends on a medium that refuses writes (FaultSpec)
\* ------------------------------------------------------------------------
\* C21: a step of a handler or of checkForMarker in which file.write calls
\* failed leaves the session open on the same file, closes and restarts
\* nothing, and goes on to the next position of loop(); and once a write
\* has failed, every later message or marker that finds the file open
\* still makes its file.write calls.
C21_WriteFailureSwallowed ==
  [][/\ (pc \in {"checkForMarker", "read"} /\ writes'.failed > writes.failed) =>
          /\ file /\ file' /\ filename' = filename
          /\ closed' = closed /\ card' = card
          /\ pc' = (IF pc = "read" THEN "wait" ELSE "read")
          /\ millis' = millis
     /\ (writes.failed > 0 /\ file /\ pc = "read" /\ inputs' # inputs) =>
          writes'.calls >= writes.calls + 4
     /\ (/\ writes.failed > 0 /\ file /\ pc = "checkForMarker"
         /\ checkForMarker(markPin, lastMarkState).marker) =>
          writes'.calls >= writes.calls + 5]_vars

\* the writes of one message failed, the next message arrived on the same
\* open session and its four writes were made and failed too
C21_Witness ==
  /\ file /\ sdFault /\ filename = 2
  /\ Len(events) = 2
  /\ writes.calls >= 8 /\ writes.failed = writes.calls
  /\ fileData = createMidiFile

\* C22: the number of file.write calls that failed in the session can be
\* read off the sketch: at every moment one of its integer globals holds it
\* (a count kept in any one of them would make this true).
C22_FailureCountExposed ==
  \/ writes.failed \in {lastPlayState, lastMarkState, nextMarker}
  \/ U32(writes.failed) \in {lastLoopCounter, loopCounter, startTime, lastTime}

\* ------------------------------------------------------------------------
\* The time base of the file
\* ------------------------------------------------------------------------
\* what a reader takes from the preamble: the division of the header chunk
\* and the tempo of the FF 51 03 event, in microseconds per quarter note
TicksPerQuarter(bytes) == bytes[13] * 256 + bytes[14]
MicrosPerQuarter(bytes) == bytes[27] * 65536 + bytes[28] * 256 + bytes[29]

\* the deltas of records a..b of a track as a reader adds them up, in units
\* of 2^28 and of 1
RECURSIVE SumRead(_, _, _)
SumRead(t, a, b) ==
  IF a > b THEN <<0, 0>>
  ELSE LET r == SumRead(t, a + 1, b)
       IN  <<t[a].delta[1] + r[1], t[a].delta[2] + r[2]>>

\* the milliseconds between appends a - 1 and b of a session
RECURSIVE SumGaps(_, _, _)
SumGaps(evs, a, b) ==
  IF a > b THEN 0 ELSE evs[a].gap + SumGaps(evs, a + 1, b)

\* the ints that getDelta returned for appends a..b of a session, added up
RECURSIVE SumDeltas(_, _, _)
SumDeltas(evs, a, b) ==
  IF a > b THEN 0 ELSE evs[a].delta + SumDeltas(evs, a + 1, b)

\* C23: the preamble declares a tick of exactly 1000 microseconds (450
\* ticks and 450000 microseconds per quarter note), the millisecond in
\* which getDelta counts, and the deltas that a reader finds after the
\* first record of the open session add up to the milliseconds between its
\* first and its last append.
C23_TickIsOneMillisecond ==
  file =>
    /\ TicksPerQuarter(fileData) = 450
    /\ MicrosPerQuarter(fileData) = 450000
    /\ MicrosPerQuarter(fileData) = 1000 * TicksPerQuarter(fileData)
    /\ LET t == Track(fileData)
           n == Len(events)
       IN  (Len(t) = n /\ \A i \in 2..n : events[i].gap < GapCap) =>
             SumRead(t, 2, n) = <<0, SumGaps(events, 2, n)>>

\* ------------------------------------------------------------------------
\* getDelta applied on its own to a clock that wraps
\* ------------------------------------------------------------------------
DeltaLasts ==
  { <<W16 - 1, W16 - j>> : j \in 1..DeltaSpread } \cup { U32(1000) }

DeltaElapsed ==
  { U32(e) : e \in (1..(2 * DeltaSpread)) \cup {400, 32767} } \cup LongGaps

DeltaInit ==
  /\ InitSketch
  /\ probe \in { [op |-> "call", startTime |-> U32(1), last |-> l,
                  now |-> Add32(l, e), delta |-> 0, lastTime |-> l] :
                   l \in DeltaLasts, e \in DeltaElapsed }

DeltaCall ==
  /\ probe.op = "call"
  /\ LET g == getDelta(probe.now, probe.startTime, probe.last)
     IN  probe' = [probe EXCEPT !.op = "done", !.delta = g.delta,
                                !.startTime = g.startTime,
                                !.lastTime = g.lastTime]
  /\ UNCHANGED <<progVars, envVars, pc, histVars, seen>>

DeltaNext == DeltaCall

DeltaSpec == DeltaInit /\ [][DeltaNext]_vars

\* C24: when millis() has wrapped since the previous event (now is below
\* lastTime), the delta that getDelta returns, as writeVarLen receives it,
\* is now - lastTime modulo 2^32.
C24_DeltaAcrossWrap ==
  (probe.op = "done" /\ Gt32(probe.last, probe.now)) =>
    IntToULong(probe.delta) = Sub32(probe.now, probe.last)

\* C25: markers and MIDI events are timed by one clock: for any two
\* appends i < j of the open session, whatever their kinds, the deltas
\* that getDelta returned for appends i+1..j add up to the milliseconds
\* between append i and append j.
C25_SharedDeltaClock ==
  \A i \in 1..Len(events) : \A j \in (i + 1)..Len(events) :
    (\A k \in (i + 1)..j : events[k].gap < GapCap) =>
      SumDeltas(events, i + 1, j) = SumGaps(events, i + 1, j)

\* ------------------------------------------------------------------------
\* handlePitchBend applied on its own to bend values of -8192 .. 8191
\* ------------------------------------------------------------------------
BendInputs ==
  { b \in UNION { (c - BendSpread)..(c + BendSpread) :
                    c \in {-8192, -128, 0, 128, 8191} } :
      b >= -8192 /\ b <= 8191 }

BendInit ==
  /\ InitSketch
  /\ probe \in { [op |-> "call", bend |-> b, written |-> <<>>] :
                   b \in BendInputs }

BendWrite ==
  /\ probe.op = "call"
  /\ probe' = [probe EXCEPT
                 !.op = "done",
                 !.written = writeToFile(PITCH_BEND_EVENT,
                                         PitchBendLsb(probe.bend),
                                         PitchBendMsb(probe.bend), 0)]
  /\ UNCHANGED <<progVars, envVars, pc, histVars, seen>>

BendNext == BendWrite

BendSpec == BendInit /\ [][BendNext]_vars

\* C26: for a bend of -8192 .. 8191 the record that handlePitchBend writes
\* ends with the status E0 and the two bytes lsb = (bend + 8192) mod 128
\* and msb = (bend + 8192) div 128, both of 0 .. 127, and
\* msb * 128 + lsb - 8192 is the bend.
C26_PitchBendBytes ==
  probe.op = "done" =>
    LET w == probe.written
        n == Len(w)
        lsb == w[n - 1]
        msb == w[n]
    IN  /\ n = 4 /\ w[n - 2] = PITCH_BEND_EVENT
        /\ lsb = (probe.bend + 8192) % 128
        /\ msb = (probe.bend + 8192) \div 128
        /\ lsb \in 0..127 /\ msb \in 0..127
        /\ msb * 128 + lsb - 8192 = probe.bend

\* the bend of -1 has been written as 7F 3F
C26_Witness ==
  /\ probe.op = "done"
  /\ probe.bend = -1
  /\ probe.written = <<0, PITCH_BEND_EVENT, 127, 63>>

C28_HousekeepingAtInterval ==
  [][pc = "updateFile" =>
       ((pc' = "wait" \/ lastLoopCounter' # lastLoopCounter)
          <=> Val32(Sub32(millis, lastLoopCounter)) >= FILE_FLUSH_INTERVAL)]_vars

\* C28 as amended: exactly when millis() is more than FILE_FLUSH_INTERVAL
\* ahead of lastLoopCounter; at a difference of exactly 400 it does not.
C28_HousekeepingPastInterval ==
  [][pc = "updateFile" =>
       ((pc' = "wait" \/ lastLoopCounter' # lastLoopCounter)
          <=> Val32(Sub32(millis, lastLoopCounter)) > FILE_FLUSH_INTERVAL)]_vars

\* updateFile has run exactly 400 ms after the last housekeeping, with an
\* event appended in between, and did no housekeeping
C28_Witness ==
  /\ pc = "setPlayState"
  /\ loopCounter = millis
  /\ Sub32(millis, lastLoopCounter) = U32(FILE_FLUSH_INTERVAL)
  /\ file /\ events # <<>> /\ card[filename] # fileData

\* C29: the passes of updateFile that do not restart, whether the model
\* follows the pass or it is one of the passes of a wait, leave the session
\* open on the same file with the same bytes written, and leave startTime,
\* lastTime, both detectors' last states, play and nextMarker as they
\* were; the card changes, if at all, by holding every byte written to the
\* open file, which it does whenever one of them was a housekeeping pass.
C29_HousekeepingOnlyCommits ==
  [][(\/ pc = "updateFile" /\ pc' = "setPlayState"
      \/ pc = "wait" /\ pc' = "updateFile") =>
       /\ file' = file /\ filename' = filename /\ fileData' = fileData
       /\ startTime' = startTime /\ lastTime' = lastTime
       /\ lastPlayState' = lastPlayState /\ lastMarkState' = lastMarkState
       /\ play' = play /\ nextMarker' = nextMarker
       /\ card' # card => file /\ card' = [card EXCEPT ![filename] = fileData]
       /\ (lastLoopCounter' # lastLoopCounter /\ file) =>
            card'[filename] = fileData]_vars

\* a housekeeping pass of a wait has committed the two events of a session
\* that is still open, 401 ms after the housekeeping pass before it
C29_Witness ==
  /\ pc = "updateFile"
  /\ file /\ Len(events) = 2
  /\ sinceAppend = FILE_FLUSH_INTERVAL
  /\ Sub32(millis, lastLoopCounter) = U32(FILE_FLUSH_INTERVAL - 1)
  /\ card[filename] = fileData
  /\ startTime # Zero32 /\ lastTime # startTime

C31_DetectorsIndependent ==
  [][/\ pc = "setPlayState" =>
          /\ lastMarkState' = lastMarkState /\ nextMarker' = nextMarker
          /\ file' = file /\ filename' = filename
          /\ fileData' = fileData /\ card' = card
          /\ startTime' = startTime /\ lastTime' = lastTime
     /\ pc = "checkForMarker" =>
          lastPlayState' = lastPlayState /\ play' = play]_vars

\* the tone button is down and has switched play on while the marker
\* detector still holds 0 and no marker was written; the marker button is
\* not pressed
C31_Witness ==
  /\ pc = "read"
  /\ lastPlayState = 1 /\ play
  /\ markPin = 0 /\ lastMarkState = 0 /\ nextMarker = 1
  /\ file /\ startTime = Zero32

\* C32: play is off at power-up and after every restart, and it is on
\* exactly if the polls of the tone button since the start, the level
\* before the first of them taken as 0, saw it go from 0 to 1 an odd
\* number of times; MIDI.read requests one tone when it handles a NoteOn
\* while play is on, with or without a file, and no other step requests
\* one.
C32_FlagIsParity ==
  /\ ~play
  /\ [][(pc \in {"wait", "updateFile"} /\ pc' = "wait") => ~play']_vars
  /\ [](play = seen.oddRises)
  /\ [][IF pc = "read" /\ seen'.message = "NoteOn" /\ play
          THEN tones' = tones + 1
          ELSE tones' = tones]_vars

\* without a card: the tone button went down, a NoteOn requested a tone,
\* and the NoteOff after it requested none
C32_Witness ==
  /\ ~file /\ ~sdPresent
  /\ lastPlayState = 1 /\ play /\ seen.oddRises
  /\ tones = 1
  /\ seen.message = "NoteOff"
  /\ pc = "wait"

\* ------------------------------------------------------------------------
\* Restarts
\* ------------------------------------------------------------------------
\* C33: every restart, by checkReset or from outside, leaves startTime and
\* lastTime 0, both detectors' last levels 0, play off, nextMarker 1 and
\* both housekeeping counters 0, and setup() has run: no event is in the
\* session, and a file that is open is a new one holding the preamble. In
\* every session after a restart the first append got delta 0 from
\* getDelta and the first marker was numbered 1.
C33_RestartIsFreshStart ==
  /\ [][(pc \in {"wait", "updateFile"} /\ pc' = "wait") =>
          /\ startTime' = Zero32 /\ lastTime' = Zero32
          /\ lastPlayState' = 0 /\ lastMarkState' = 0
          /\ ~play' /\ nextMarker' = 1
          /\ lastLoopCounter' = Zero32 /\ loopCounter' = Zero32
          /\ events' = <<>>
          /\ file' => /\ fileData' = createMidiFile
                      /\ filename' \in DOMAIN card'
                      /\ filename' \notin DOMAIN card]_vars
  /\ []((DOMAIN closed # {} /\ events # <<>>) =>
          /\ events[1].delta = 0
          /\ \A i \in 1..Len(events) :
               (/\ events[i].kind = "Marker"
                /\ \A j \in 1..(i - 1) : events[j].kind # "Marker") =>
                 events[i].data = Digits(1))

\* an idle restart ended a session in which a marker had been written, and
\* the first append of the session after it is a marker again, with delta
\* 0 and number 1
C33_Witness ==
  /\ \E n \in DOMAIN closed :
       /\ closed[n].by = "idle"
       /\ \E i \in 1..Len(closed[n].events) : closed[n].events[i].kind = "Marker"
  /\ file /\ events # <<>>
  /\ events[1].kind = "Marker" /\ events[1].delta = 0
  /\ events[1].data = <<49>>
  /\ nextMarker = 2

\* ------------------------------------------------------------------------
\* Without a file
\* ------------------------------------------------------------------------
\* C34: with no file open, every message that MIDI.read handles and every
\* press that the marker detector fires on still sets lastTime to the
\* time of that pass, although nothing is written.
C34_ClockRunsWithoutFile ==
  [][(/\ ~file
      /\ \/ pc = "read" /\ seen'.message # "none"
         \/ pc = "checkForMarker" /\ markPin = 1 /\ lastMarkState = 0) =>
       lastTime' = millis]_vars

\* ------------------------------------------------------------------------
\* The handlers applied on their own to one message on two channels
\* ------------------------------------------------------------------------
Channels == 1..16

\* the bytes that the handler of message m hands to the file at delta 0
HandlerBytes(m) ==
  IF m.kind = "PitchBend"
    THEN writeToFile(EventType(m), PitchBendLsb(m.d1), PitchBendMsb(m.d1), 0)
    ELSE writeToFile(EventType(m), m.d1, m.d2, 0)

ChannelInit ==
  /\ InitSketch
  /\ probe \in { [op |-> "call", message |-> [m EXCEPT !.channel = c],
                  other |-> d, written |-> <<>>, writtenOther |-> <<>>] :
                   m \in Messages, c \in Channels, d \in Channels }

ChannelWrite ==
  /\ probe.op = "call"
  /\ probe' = [probe EXCEPT
                 !.op = "done",
                 !.written = HandlerBytes(probe.message),
                 !.writtenOther =
                   HandlerBytes([probe.message EXCEPT !.channel = probe.other])]
  /\ UNCHANGED <<progVars, envVars, pc, histVars, seen>>

ChannelNext == ChannelWrite

ChannelSpec == ChannelInit /\ [][ChannelNext]_vars

C36_OncePerPress ==
  [][/\ (pc = "checkForMarker" /\ Len(events') > Len(events)) =>
          ~seen.markServed
     /\ (pc = "setPlayState" /\ play' # play) => ~seen.playServed
     /\ (pc = "checkForMarker" /\ markPin = 1 /\ ~seen.markServed /\ file) =>
          Len(events') = Len(events) + 1
     /\ (pc = "setPlayState" /\ playPin = 1 /\ ~seen.playServed) =>
          play' # play]_vars

\* C37: with no file open, the passes of updateFile, whether the model
\* follows the pass or it is one of the passes of a wait, never restart
\* the sketch, whatever was received and however long ago: they leave the
\* Delta Clock, the detectors, play and nextMarker as they were, and no
\* file is open after them.
C37_NoRestartWithoutFile ==
  [][(~file /\ (pc = "updateFile" \/ iterations' # iterations)) =>
       /\ ~file' /\ filename' = filename /\ card' = card
       /\ pc' \in {"updateFile", "setPlayState"}
       /\ startTime' = startTime /\ lastTime' = lastTime
       /\ lastPlayState' = lastPlayState /\ play' = play
       /\ lastMarkState' = lastMarkState /\ nextMarker' = nextMarker]_vars

\* without a card a message has started the Delta Clock, and housekeeping
\* has run when micros() was more than RECORDING_TIMEOUT past lastTime
C37_Witness ==
  /\ ~file /\ ~sdPresent
  /\ startTime # Zero32
  /\ pc = "updateFile"
  /\ Gt32(lastLoopCounter, lastTime)
  /\ Gt32(Sub32(MicrosOf(lastLoopCounter), lastTime), U32(RECORDING_TIMEOUT))

\* ------------------------------------------------------------------------
\* writeVarLen applied on its own to unsigned long values of every width,
\* those of 2^28 and above included
\* ------------------------------------------------------------------------
VarLenWideHighs == {0, 1, 4095, 4096, 4097, 32767, 32768, W16 - 1}

VarLenWideLows ==
  (0..VarLenSpread) \cup ((W16 - 1 - VarLenSpread)..(W16 - 1))
    \cup {127, 128, 16383, 16384, 32768}

VarLenWideInit ==
  /\ InitSketch
  /\ probe \in { [op |-> "call", value |-> <<hi, lo>>, written |-> <<>>] :
                   hi \in VarLenWideHighs, lo \in VarLenWideLows }

VarLenWideNext == VarLenWrite

VarLenWideSpec == VarLenWideInit /\ [][VarLenWideNext]_vars

=============================================================================
